---- MODULE Spec2Model ----
(***************************************************************************)
(* Index-scan planner and executor of the stream query engine, and the     *)
(* series directory it lists series from.                                  *)
(*                                                                         *)
(*   logical/plan_indexscan_local.go  (src/unnamed/part_000)               *)
(*   tsdb/seriesdb.go                 (src/unnamed/part_001)               *)
(*   metadata service                 (src/unnamed/part_002)               *)
(*                                                                         *)
(* The specifications of the module:                                       *)
(*   SpecAnalyze  unresolvedIndexScan.Analyze applied to bounded plans     *)
(*   SpecExecute  localIndexScan.Execute applied to bounded stores         *)
(*   SpecSeries   concurrent seriesDB.Get / GetByHashKey callers           *)
(*   SpecList     Get calls of one caller followed by NewPath and List     *)
(*   SpecProject  Analyze followed by Execute of the plan it returned      *)
(*   SpecPlans    localIndexScan.Equal and String applied to pairs of plans*)
(*   SpecBuild    localIndexScan.executeInShard configuring seeker builders*)
(*   SpecConditions  exprToCondition applied to bounded predicate lists    *)
(*   SpecSpan     seriesDB.span applied to bounded segment lists           *)
(*   SpecRules    service.IndexRules applied to bounded binding lists      *)
(***************************************************************************)
EXTENDS Integers, Sequences, FiniteSets, TLC

VARIABLES
    uis,        \* the unresolvedIndexScan last handed to Analyze (or NoPlan)
    analyzed,   \* what Analyze returned for it: [plan, err]
    calls,      \* the Schema / sub-plan calls Analyze made, in order
    scan,       \* the localIndexScan being executed (or NoPlan)
    store,      \* what executeForShard returned for the shards visited so far
    run,        \* Execute's position and locals: [pc, nShards, iters, pos, elems]
    executed,   \* what Execute returned: [elems, err], and the call that failed
    storage,    \* the ExecutionContext / storage calls Execute made, in order
    rerun,      \* a second Execute of the same plan against the same store
    kv,         \* seriesDB.seriesMetadata: hashed entity key -> series id bytes
    mutex,      \* seriesDB's sync.Mutex: the goroutine holding it, or NoProc
    procs,      \* the concurrent Get callers: [pc, entity, key, via, id, err]
    gets,       \* the (entity, series id) pairs Get has returned
    listed,     \* the last List call: its path and what it returned
    compared,   \* the last pair of plans compared, with Equal's and String's results
    built,      \* executeInShard's calls on the seeker builders, shard by shard
    converted,  \* the last list handed to exprToCondition, and its result
    spanned,    \* the last database span was called on, and what it returned
    ruled       \* the last IndexRules call: the registry it read and what it returned

analyzeVars == <<uis, analyzed, calls>>

executeVars == <<scan, store, run, executed, storage, rerun>>

seriesVars == <<kv, mutex, procs, gets, listed>>

planVars == <<compared, built, converted, spanned, ruled>>

vars == <<uis, analyzed, calls, scan, store, run, executed, storage, rerun, kv, mutex, procs, gets, listed,
          compared, built, converted, spanned, ruled>>

(***************************************************************************)
(* Bounds of the analyzer model                                            *)
(***************************************************************************)
\* longest condition list of an unresolved plan
MaxConds == 3

(***************************************************************************)
(* The schema the plans are analyzed against.  An index rule is a handle   *)
(* (the *databasev1.IndexRule pointer); L1 covers two tags, U1 has the     *)
(* zero location LOCATION_UNSPECIFIED.                                     *)
(***************************************************************************)
IndexRules == {"L1", "L2", "G1", "G2", "U1"}

RuleLocation(rule) ==
    CASE rule \in {"L1", "L2"} -> "LOCATION_SERIES"
      [] rule \in {"G1", "G2"} -> "LOCATION_GLOBAL"
      [] OTHER                 -> "LOCATION_UNSPECIFIED"

RuleTags(rule) ==
    CASE rule = "L1" -> {"a", "b"}
      [] rule = "L2" -> {"c"}
      [] rule = "G1" -> {"g"}
      [] rule = "G2" -> {"h"}
      [] rule = "U1" -> {"u"}
      [] OTHER       -> {}

\* tags a predicate may name; "xyz" has no index rule
TagNames == {"a", "b", "c", "g", "h", "u", "xyz"}

\* Schema.IndexDefined(tag) -> (defined, rule): the rule that covers the tag
IndexDefined(tag) ==
    IF \E r \in IndexRules : tag \in RuleTags(r)
    THEN [defined |-> TRUE, rule |-> CHOOSE r \in IndexRules : tag \in RuleTags(r)]
    ELSE [defined |-> FALSE, rule |-> "nil"]

\* tags the stream declares (projection can name them); "nope" is undeclared
SchemaTags == TagNames \cup {"trace"}

NoErr == [kind |-> "nil", arg |-> ""]

Err(kind, arg) == [kind |-> kind, arg |-> arg]

\* Schema.CreateRef(projection...) -> ([][]*FieldRef, error)
CreateRef(projectionFields) ==
    IF \A i \in 1..Len(projectionFields) :
          \A j \in 1..Len(projectionFields[i]) : projectionFields[i][j] \in SchemaTags
    THEN [refs |-> projectionFields, err |-> NoErr]
    ELSE [refs |-> <<>>, err |-> Err("ErrTagNotDefined", "")]

\* UnresolvedOrderBy.analyze(schema view) -> (*orderBy, error)
AnalyzeOrderBy(unresolvedOrderBy) ==
    IF unresolvedOrderBy.indexRuleName = ""
    THEN [orderBy |-> [index |-> "nil", sort |-> unresolvedOrderBy.sort], err |-> NoErr]
    ELSE IF unresolvedOrderBy.indexRuleName \in IndexRules
    THEN [orderBy |-> [index |-> unresolvedOrderBy.indexRuleName,
                       sort |-> unresolvedOrderBy.sort], err |-> NoErr]
    ELSE [orderBy |-> [index |-> "nil", sort |-> unresolvedOrderBy.sort],
          err |-> Err("ErrIndexNotDefined", unresolvedOrderBy.indexRuleName)]

(***************************************************************************)
(* Conditions.  kind "binary" is a *binaryExpr (FieldRef op Literal),      *)
(* "resolvable" another ResolvableExpr, "plain" an Expr that is not        *)
(* resolvable.  pos is the expression's identity (its place in the list),  *)
(* resolves tells whether its Resolve(s) returns nil.                      *)
(***************************************************************************)
CondShapes ==
    [kind : {"binary"}, tag : TagNames, resolves : {TRUE}]
        \cup [kind : {"binary"}, tag : {"a"}, resolves : {FALSE}]
        \cup [kind : {"resolvable"}, tag : {""}, resolves : BOOLEAN]
        \cup [kind : {"plain"}, tag : {""}, resolves : {TRUE}]

\* the condition lists of n conditions
Conditions(n) ==
    { [i \in 1..n |-> [pos |-> i, kind |-> f[i].kind, tag |-> f[i].tag,
                       resolves |-> f[i].resolves]] : f \in [1..n -> CondShapes] }

Projections == { <<>>, << <<"trace">> >>, << <<"nope">> >> }

OrderBys == [indexRuleName : {"", "L1", "missing"}, sort : {"ASC"}]

\* the entity and time range a plan is composed with
ScanTargets ==
    { [entity |-> <<"svcA", "instA">>, timeRange |-> [start |-> 100, end |-> 200]],
      [entity |-> <<"ANY", "instB">>, timeRange |-> [start |-> 0, end |-> 50]] }

\* IndexScan(startTime, endTime, metadata, conditions, entity, orderBy, projection...)
IndexScan(timeRange, metadata, conditions, entity, orderBy, projection) ==
    [unresolvedOrderBy |-> orderBy,
     startTime         |-> timeRange.start,
     endTime           |-> timeRange.end,
     metadata          |-> metadata,
     conditions        |-> conditions,
     projectionFields  |-> projection,
     entity            |-> entity]

NoPlan == [type |-> "nil"]

\* the unresolved plans composed over a list of conditions
UnresolvedPlans(conds) ==
    { IndexScan(t.timeRange, "sw", conds, t.entity, ob, proj) :
        t \in ScanTargets, ob \in OrderBys, proj \in Projections }

(***************************************************************************)
(* unresolvedIndexScan.Analyze                                             *)
(***************************************************************************)
\* PutLocal with the append lost: the entry is overwritten
PutLocalOverwrite(localConditionMap, indexObj, cond) ==
    [r \in DOMAIN localConditionMap \cup {indexObj} |->
        IF r = indexObj THEN <<cond>> ELSE localConditionMap[r]]

\* localConditionMap[indexObj] = append(localConditionMap[indexObj], cond)
PutLocal(localConditionMap, indexObj, cond) ==
    IF indexObj \in DOMAIN localConditionMap
    THEN [localConditionMap EXCEPT ![indexObj] = Append(@, cond)]
    ELSE [r \in DOMAIN localConditionMap \cup {indexObj} |->
            IF r = indexObj THEN <<cond>> ELSE localConditionMap[r]]

\* globalConditions = append(globalConditions, indexObj, cond)
PutGlobal(globalConditions, indexObj, cond) ==
    globalConditions \o <<indexObj, cond>>

\* Classify without the location test: every indexed predicate is local
ClassifyAllLocal(st, indexObj, cond) ==
    [st EXCEPT !.localConditionMap = PutLocal(@, indexObj, cond)]

\* the classification of one binary predicate whose tag has an index
Classify(st, indexObj, cond) ==
    IF RuleLocation(indexObj) = "LOCATION_SERIES"
    THEN [st EXCEPT !.localConditionMap = PutLocal(@, indexObj, cond)]
    ELSE IF RuleLocation(indexObj) = "LOCATION_GLOBAL"
    THEN [st EXCEPT !.globalConditions = PutGlobal(@, indexObj, cond)]
    ELSE st

\* ConditionLoop that skips a predicate without an index instead of failing
RECURSIVE ConditionLoopSkip(_, _, _)
ConditionLoopSkip(conditions, i, st) ==
    IF i > Len(conditions) THEN st
    ELSE LET cond == conditions[i] IN
      IF cond.kind = "plain" THEN ConditionLoopSkip(conditions, i + 1, st)
      ELSE LET r == [st EXCEPT !.calls = Append(@, "Resolve")] IN
        IF ~cond.resolves THEN [r EXCEPT !.err = Err("ErrResolve", cond.tag)]
        ELSE IF cond.kind # "binary" THEN ConditionLoopSkip(conditions, i + 1, r)
        ELSE LET d == IndexDefined(cond.tag)
                 q == [r EXCEPT !.calls = Append(@, "IndexDefined")]
             IN IF d.defined
                THEN ConditionLoopSkip(conditions, i + 1, Classify(q, d.rule, cond))
                ELSE ConditionLoopSkip(conditions, i + 1, q)

\* the loop over uis.conditions; st.err # NoErr is the early return
RECURSIVE ConditionLoop(_, _, _)
ConditionLoop(conditions, i, st) ==
    IF i > Len(conditions) THEN st
    ELSE LET cond == conditions[i] IN
      IF cond.kind = "plain" THEN ConditionLoop(conditions, i + 1, st)
      ELSE LET r == [st EXCEPT !.calls = Append(@, "Resolve")] IN
        IF ~cond.resolves THEN [r EXCEPT !.err = Err("ErrResolve", cond.tag)]
        ELSE IF cond.kind # "binary" THEN ConditionLoop(conditions, i + 1, r)
        ELSE LET d == IndexDefined(cond.tag)
                 q == [r EXCEPT !.calls = Append(@, "IndexDefined")]
             IN IF d.defined
                THEN ConditionLoop(conditions, i + 1, Classify(q, d.rule, cond))
                ELSE [q EXCEPT !.err = Err("ErrIndexNotDefined", cond.tag)]

\* GlobalRoute that analyzes the orderBy first, as the local route does
GlobalRouteOrdered(u, globalConditions, projFieldsRefs, calls_) ==
    IF AnalyzeOrderBy(u.unresolvedOrderBy).err # NoErr
    THEN [plan |-> NoPlan, err |-> AnalyzeOrderBy(u.unresolvedOrderBy).err,
          calls |-> calls_ \o <<"Proj", "analyzeOrderBy">>]
    ELSE IF Len(globalConditions) \div 2 > 1
    THEN [plan |-> NoPlan, err |-> Err("ErrMultipleGlobalIndexes", ""), calls |-> calls_]
    ELSE [plan |-> [type                |-> "GlobalIndexScan",
                    projectionFieldRefs |-> projFieldsRefs,
                    metadata            |-> u.metadata,
                    globalIndexRule     |-> globalConditions[1],
                    expr                |-> globalConditions[2]],
          err |-> NoErr, calls |-> calls_]

\* GlobalRoute whose plan keeps the scan's entity and time range
GlobalRouteKeepsTarget(u, globalConditions, projFieldsRefs, calls_) ==
    IF Len(globalConditions) \div 2 > 1
    THEN [plan |-> NoPlan, err |-> Err("ErrMultipleGlobalIndexes", ""), calls |-> calls_]
    ELSE [plan |-> [type                |-> "GlobalIndexScan",
                    projectionFieldRefs |-> projFieldsRefs,
                    metadata            |-> u.metadata,
                    globalIndexRule     |-> globalConditions[1],
                    expr                |-> globalConditions[2],
                    timeRange           |-> [start |-> u.startTime, end |-> u.endTime],
                    entity              |-> u.entity],
          err |-> NoErr, calls |-> calls_]

\* len(globalConditions) > 0: at most one (rule, expr) pair is accepted
GlobalRoute(u, globalConditions, projFieldsRefs, calls_) ==
    IF Len(globalConditions) \div 2 > 1
    THEN [plan |-> NoPlan, err |-> Err("ErrMultipleGlobalIndexes", ""), calls |-> calls_]
    ELSE [plan |-> [type                |-> "GlobalIndexScan",
                    projectionFieldRefs |-> projFieldsRefs,
                    metadata            |-> u.metadata,
                    globalIndexRule     |-> globalConditions[1],
                    expr                |-> globalConditions[2]],
          err |-> NoErr, calls |-> calls_]

\* the global list is empty: analyze the orderBy, build the localIndexScan
LocalRoute(u, localConditionMap, projFieldsRefs, calls_) ==
    LET ob == AnalyzeOrderBy(u.unresolvedOrderBy)
        c  == calls_ \o <<"Proj", "analyzeOrderBy">>
    IN IF ob.err # NoErr
       THEN [plan |-> NoPlan, err |-> ob.err, calls |-> c]
       ELSE [plan |-> [type                |-> "LocalIndexScan",
                       orderBy             |-> ob.orderBy,
                       timeRange           |-> [start |-> u.startTime, end |-> u.endTime],
                       projectionFieldRefs |-> projFieldsRefs,
                       metadata            |-> u.metadata,
                       conditionMap        |-> localConditionMap,
                       entity              |-> u.entity],
             err |-> NoErr, calls |-> c]

\* the projection step with CreateRef called whatever the projection
CreateRefsAlways(u) ==
    [refs  |-> CreateRef(u.projectionFields).refs,
     err   |-> CreateRef(u.projectionFields).err,
     calls |-> <<"CreateRef">>]

\* if uis.projectionFields != nil && len(uis.projectionFields) > 0 { CreateRef }
CreateRefs(u) ==
    IF Len(u.projectionFields) > 0
    THEN [refs  |-> CreateRef(u.projectionFields).refs,
          err   |-> CreateRef(u.projectionFields).err,
          calls |-> <<"CreateRef">>]
    ELSE [refs |-> <<>>, err |-> NoErr, calls |-> <<>>]

Analyze(u) ==
    LET st == ConditionLoop(u.conditions, 1,
                  [localConditionMap |-> <<>>, globalConditions |-> <<>>,
                   calls |-> <<>>, err |-> NoErr])
    IN IF st.err # NoErr
       THEN [plan |-> NoPlan, err |-> st.err, calls |-> st.calls]
       ELSE LET cr == CreateRefs(u)
                c  == st.calls \o cr.calls
            IN IF cr.err # NoErr
               THEN [plan |-> NoPlan, err |-> cr.err, calls |-> c]
               ELSE IF Len(st.globalConditions) > 0
               THEN GlobalRoute(u, st.globalConditions, cr.refs, c)
               ELSE LocalRoute(u, st.localConditionMap, cr.refs, c)

(***************************************************************************)
(* Actions of the analyzer                                                 *)
(***************************************************************************)
InitAnalyze ==
    /\ uis = NoPlan
    /\ analyzed = [plan |-> NoPlan, err |-> NoErr]
    /\ calls = <<>>

\* one plan is composed and analyzed per behaviour
DoAnalyze ==
    /\ uis = NoPlan
    /\ \E n \in 0..MaxConds : \E conds \in Conditions(n) : \E u \in UnresolvedPlans(conds) :
        LET res == Analyze(u) IN
        /\ uis' = [type |-> "unresolvedIndexScan", u |-> u]
        /\ analyzed' = [plan |-> res.plan, err |-> res.err]
        /\ calls' = res.calls
    /\ UNCHANGED <<executeVars, seriesVars, planVars>>

\* a plan of at most one condition is composed and analyzed, to be executed
AnalyzeToExecute ==
    /\ uis = NoPlan
    /\ \E n \in 0..1 : \E conds \in Conditions(n) : \E u \in UnresolvedPlans(conds) :
        LET res == Analyze(u) IN
        /\ uis' = [type |-> "unresolvedIndexScan", u |-> u]
        /\ analyzed' = [plan |-> res.plan, err |-> res.err]
        /\ calls' = res.calls
    /\ UNCHANGED <<executeVars, seriesVars, planVars>>

(***************************************************************************)
(* Bounds of the executor model                                            *)
(***************************************************************************)
\* most shards ExecutionContext.Shards returns
MaxShards == 2

\* most iterators executeForShard returns for one shard
MaxIters == 1

\* most items the iterators of all shards hold together
MaxItems == 3

(***************************************************************************)
(* The store a scan runs against.  An iterator is given by the sort keys   *)
(* of its items; the item's series is the iterator's, its item id its      *)
(* place in the series.                                                    *)
(***************************************************************************)
SortKeys == {1, 2}

Sorts == {"SORT_ASC", "SORT_DESC"}

\* series ids follow neither the shard order nor the iterator order
SeriesIDOf(shard, k) ==
    IF shard % 2 = 1 THEN 100 + 10 * shard + k ELSE 10 * shard + k

\* the sort order of two keys of one iterator, a seeker's OrderByTime(sort)
InSeekOrder(sort, k1, k2) == IF sort = "SORT_DESC" THEN k1 >= k2 ELSE k1 <= k2

\* the key sequences of n items a seeker can return under the sort
SortedKeySeqs(sort, n) ==
    { f \in [1..n -> SortKeys] : \A j \in 1..(n - 1) : InSeekOrder(sort, f[j], f[j + 1]) }

\* the lists of exactly k iterators that hold exactly n items together
RECURSIVE IterLists(_, _, _)
IterLists(sort, k, n) ==
    IF k = 0 THEN (IF n = 0 THEN { <<>> } ELSE {})
    ELSE UNION { { <<it>> \o rest : it \in SortedKeySeqs(sort, l),
                                    rest \in IterLists(sort, k - 1, n - l) }
                 : l \in 0..n }

\* what executeForShard can return for one shard that holds n items
ShardsOf(sort, n) == UNION { IterLists(sort, k, n) : k \in 0..MaxIters }

RECURSIVE CountItems(_)
CountItems(iterLists) ==
    IF Len(iterLists) = 0 THEN 0
    ELSE Len(Head(iterLists)) + CountItems(Tail(iterLists))

RECURSIVE CountInShards(_)
CountInShards(shards) ==
    IF Len(shards) = 0 THEN 0
    ELSE CountItems(Head(shards)) + CountInShards(Tail(shards))

ErrAt(fn, at) == Err(fn, ToString(at))

\* the items of iterator k of a shard
ItemsOf(shard, k, keys) ==
    [j \in 1..Len(keys) |-> [key |-> keys[j], sid |-> SeriesIDOf(shard, k), iid |-> j]]

\* the iterators of a shard whose executeForShard returned the key lists
IteratorsOf(shard, keyLists) ==
    [k \in 1..Len(keyLists) |-> ItemsOf(shard, k, keyLists[k])]

(***************************************************************************)
(* The comparator and the k-way merge (createComparator, NewItemIter)      *)
(***************************************************************************)
\* createComparator(sort): by sort key, then series id, then item id
Less(sort, a, b) ==
    IF a.key # b.key
    THEN IF sort = "SORT_DESC" THEN a.key > b.key ELSE a.key < b.key
    ELSE IF a.sid # b.sid THEN a.sid < b.sid
    ELSE a.iid < b.iid

\* the direction handed to createComparator, ascending whatever the plan says
ComparatorSortAscending(i) == "SORT_ASC"

\* c := createComparator(i.sort)
ComparatorSort(i) == i.sort

\* the iterators that still have a head item in the heap
InHeap(iters, pos) == { i \in 1..Len(iters) : pos[i] <= Len(iters[i]) }

\* the heap's top: the iterator whose head item is least
Top(sort, iters, pos) ==
    CHOOSE i \in InHeap(iters, pos) :
        \A j \in InHeap(iters, pos) \ {i} :
            \/ Less(sort, iters[i][pos[i]], iters[j][pos[j]])
            \/ (~Less(sort, iters[j][pos[j]], iters[i][pos[i]]) /\ i < j)

\* projectItem(ec, item, projectionFieldRefs): one tag family per ref list
ProjectItem(item, projectionFieldRefs) ==
    [f \in 1..Len(projectionFieldRefs) |-> projectionFieldRefs[f]]

\* ec.ParseElementID(item)
ParseElementID(item) == <<item.sid, item.iid>>

(***************************************************************************)
(* localIndexScan.Execute                                                  *)
(***************************************************************************)
\* return nil, err
ReturnErrPartial(elems, fn, at) ==
    [elems |-> elems, err |-> ErrAt(fn, at), failed |-> [fn |-> fn, at |-> at]]

ReturnErr(elems, fn, at) ==
    [elems |-> <<>>, err |-> ErrAt(fn, at), failed |-> [fn |-> fn, at |-> at]]

NotReturned == [elems |-> <<>>, err |-> NoErr, failed |-> [fn |-> "none", at |-> 0]]

\* iters = append(iters, itersInShard...)
AppendItersOverwrite(iters, itersInShard) == itersInShard

AppendIters(iters, itersInShard) == iters \o itersInShard

Call(fn, at) == [fn |-> fn, at |-> at]

Idle == [pc |-> "idle", nShards |-> 0, iters |-> <<>>, pos |-> <<>>, elems |-> <<>>]

InitExecute ==
    /\ scan = NoPlan
    /\ store = <<>>
    /\ run = Idle
    /\ executed = NotReturned
    /\ storage = <<>>
    /\ rerun = [status |-> "none"]

\* shards, err := ec.Shards(i.entity): an analyzed plan starts executing
ExecuteShards ==
    /\ run.pc = "idle"
    /\ \E sort \in Sorts :
         scan' = [type |-> "localIndexScan", sort |-> sort, projectionFieldRefs |-> <<>>]
    /\ storage' = <<Call("Shards", 0)>>
    /\ store' = store
    /\ \/ /\ run' = [run EXCEPT !.pc = "done"]
          /\ executed' = ReturnErr(<<>>, "Shards", 0)
       \/ /\ \E n \in 0..MaxShards :
               run' = [run EXCEPT !.pc = IF n = 0 THEN "merge" ELSE "shards", !.nShards = n]
          /\ executed' = executed
    /\ UNCHANGED <<rerun, analyzeVars, seriesVars, planVars>>

\* it := NewItemIter(iters, c): the head of every iterator enters the heap
StartPos(iters) == [i \in 1..Len(iters) |-> 1]

\* one turn of the shard loop: executeInShard (List, then executeForShard)
\* and iters = append(iters, itersInShard...)
ExecuteInShard ==
    /\ run.pc = "shards"
    /\ LET shard == Len(store) + 1 IN
       \/ /\ storage' = Append(storage, Call("List", shard))
          /\ executed' = ReturnErr(<<>>, "List", shard)
          /\ run' = [run EXCEPT !.pc = "done"]
          /\ store' = store
       \/ /\ storage' = storage \o <<Call("List", shard), Call("executeForShard", shard)>>
          /\ executed' = ReturnErr(<<>>, "executeForShard", shard)
          /\ run' = [run EXCEPT !.pc = "done"]
          /\ store' = store
       \/ /\ storage' = storage \o <<Call("List", shard), Call("executeForShard", shard)>>
          /\ executed' = executed
          /\ \E n \in 0..(MaxItems - CountInShards(store)) :
               \E keyLists \in ShardsOf(scan.sort, n) :
                 /\ store' = Append(store, keyLists)
                 /\ run' = [run EXCEPT
                              !.iters = AppendIters(@, IteratorsOf(shard, keyLists)),
                              !.pos = StartPos(AppendIters(run.iters, IteratorsOf(shard, keyLists))),
                              !.pc = IF shard = run.nShards THEN "merge" ELSE "shards"]
    /\ UNCHANGED <<scan, rerun, analyzeVars, seriesVars, planVars>>

\* one turn of for it.HasNext(): Next, projectItem, ParseElementID, append;
\* or the return of elems when the heap is empty
ExecuteNext ==
    /\ run.pc = "merge"
    /\ LET pos == run.pos IN
       IF InHeap(run.iters, pos) = {}
       THEN /\ executed' = [elems |-> run.elems, err |-> NoErr,
                            failed |-> [fn |-> "none", at |-> 0]]
            /\ run' = [run EXCEPT !.pc = "done"]
            /\ storage' = storage
       ELSE LET i        == Top(ComparatorSort(scan), run.iters, pos)
                nextItem == run.iters[i][pos[i]]
                n        == Len(run.elems) + 1
            IN \/ /\ storage' = Append(storage, Call("projectItem", n))
                  /\ executed' = ReturnErr(run.elems, "projectItem", n)
                  /\ run' = [run EXCEPT !.pc = "done"]
               \/ /\ storage' = storage \o <<Call("projectItem", n), Call("ParseElementID", n)>>
                  /\ executed' = ReturnErr(run.elems, "ParseElementID", n)
                  /\ run' = [run EXCEPT !.pc = "done"]
               \/ /\ storage' = storage \o <<Call("projectItem", n), Call("ParseElementID", n)>>
                  /\ executed' = executed
                  /\ run' = [run EXCEPT
                               !.pos = [pos EXCEPT ![i] = @ + 1],
                               !.elems = Append(@, [elementId   |-> ParseElementID(nextItem),
                                                    timestamp   |-> nextItem.key,
                                                    tagFamilies |-> ProjectItem(nextItem,
                                                        scan.projectionFieldRefs)])]
    /\ UNCHANGED <<scan, store, rerun, analyzeVars, seriesVars, planVars>>

\* the element Execute appends for an item
ElementOf(item, projectionFieldRefs) ==
    [elementId   |-> ParseElementID(item),
     timestamp   |-> item.key,
     tagFamilies |-> ProjectItem(item, projectionFieldRefs)]

\* for it.HasNext() { ... } run to its end with no call failing
RECURSIVE MergeLoop(_, _, _, _, _)
MergeLoop(sort, iters, pos, elems, projectionFieldRefs) ==
    IF InHeap(iters, pos) = {} THEN elems
    ELSE LET i == Top(sort, iters, pos) IN
         MergeLoop(sort, iters, [pos EXCEPT ![i] = @ + 1],
                   Append(elems, ElementOf(iters[i][pos[i]], projectionFieldRefs)),
                   projectionFieldRefs)

\* the orders in which ec.Shards can enumerate n shards
ShardOrders(n) ==
    { f \in [1..n -> 1..n] : \A x, y \in 1..n : x # y => f[x] # f[y] }

\* the iterators of a shard with its series listed in the other order
Reversed(iterators) == [k \in 1..Len(iterators) |-> iterators[Len(iterators) + 1 - k]]

\* the shard loop of Execute over the shards in the given order
RECURSIVE ShardLoop(_, _, _, _, _)
ShardLoop(shards, order, backwards, k, iters) ==
    IF k > Len(order) THEN iters
    ELSE LET itersInShard == IteratorsOf(order[k], shards[order[k]]) IN
         ShardLoop(shards, order, backwards, k + 1,
                   AppendIters(iters, IF backwards THEN Reversed(itersInShard)
                                      ELSE itersInShard))

\* the stores an analyzed plan is executed against: up to two shards of at
\* most one series of one or two items
AnalyzedStores(sort) ==
    UNION { [1..n -> {<<>>} \cup { <<keys>> : keys \in SortedKeySeqs(sort, 1)
                                                      \cup SortedKeySeqs(sort, 2) }]
            : n \in 0..2 }

\* the modelv1.Sort of an analyzed orderBy
SortOf(orderBy) == IF orderBy.sort = "DESC" THEN "SORT_DESC" ELSE "SORT_ASC"

\* Execute of the LocalIndexScan Analyze returned, no call failing
ExecuteAnalyzed ==
    /\ analyzed.plan.type = "LocalIndexScan"
    /\ run.pc = "idle"
    /\ \E shards \in AnalyzedStores(SortOf(analyzed.plan.orderBy)) :
         LET i     == [type |-> "localIndexScan", sort |-> SortOf(analyzed.plan.orderBy),
                       projectionFieldRefs |-> analyzed.plan.projectionFieldRefs]
             iters == ShardLoop(shards, [k \in 1..Len(shards) |-> k], FALSE, 1, <<>>)
             elems == MergeLoop(ComparatorSort(i), iters, StartPos(iters), <<>>,
                                i.projectionFieldRefs)
         IN /\ scan' = i
            /\ store' = shards
            /\ run' = [pc |-> "done", nShards |-> Len(shards), iters |-> iters,
                       pos |-> [k \in 1..Len(iters) |-> Len(iters[k]) + 1], elems |-> elems]
            /\ executed' = [elems |-> elems, err |-> NoErr,
                            failed |-> [fn |-> "none", at |-> 0]]
    /\ UNCHANGED <<storage, rerun, analyzeVars, seriesVars, planVars>>

\* Execute called again on the same plan and store, no call failing; shards
\* and series come in an order of the storage's choosing
ExecuteAgain ==
    /\ run.pc = "done"
    /\ executed.err = NoErr
    /\ rerun.status = "none"
    /\ \E order \in ShardOrders(Len(store)), backwards \in BOOLEAN :
         LET iters == ShardLoop(store, order, backwards, 1, <<>>) IN
         rerun' = [status    |-> "done",
                   reordered |-> iters # run.iters,
                   elems     |-> MergeLoop(ComparatorSort(scan), iters, StartPos(iters), <<>>,
                                           scan.projectionFieldRefs)]
    /\ UNCHANGED <<scan, store, run, executed, storage, analyzeVars, seriesVars, planVars>>

(***************************************************************************)
(* Bounds of the series-directory model                                    *)
(***************************************************************************)
\* goroutines calling Get on one series directory at the same time
NumProcs == 2

\* most entries of an entity
MaxEntries == 2

\* most series a directory holds before it is listed
MaxSeries == 2

(***************************************************************************)
(* Bytes, hashes and keys (tsdb/seriesdb.go, pkg/convert)                  *)
(***************************************************************************)
\* the bytes of a uint64 (convert.Uint64ToBytes)
WordLen == 8

RECURSIVE BigEndian(_, _)
BigEndian(v, n) == IF n = 0 THEN <<>> ELSE Append(BigEndian(v \div 256, n - 1), v % 256)

Uint64ToBytes(v) == BigEndian(v, WordLen)

RECURSIVE BytesToUint64(_)
BytesToUint64(data) ==
    IF Len(data) = 0 THEN 0
    ELSE BytesToUint64(SubSeq(data, 1, Len(data) - 1)) * 256 + data[Len(data)]

\* convert.Hash: a 64-bit hash of a byte string (values kept below 2^16)
RECURSIVE HashFold(_, _)
HashFold(bytes, acc) ==
    IF Len(bytes) = 0 THEN acc
    ELSE HashFold(Tail(bytes), (acc * 33 + Head(bytes) + 7) % 65521)

Hash(bytes) == HashFold(bytes, 5381)

\* var maxIntBytes = convert.Uint64ToBytes(math.MaxUint64)
maxIntBytes == [i \in 1..WordLen |-> 255]

\* var zeroIntBytes = convert.Uint64ToBytes(0)
zeroIntBytes == Uint64ToBytes(0)

\* var AnyEntry = Entry(nil); a concrete entry is a byte string
AnyEntry == <<-1>>

EntryValues == { <<1>>, <<2>> }

EntryBytes(e) == IF e = AnyEntry THEN <<>> ELSE e

\* func hash(entry []byte) []byte
hash(entry) == Uint64ToBytes(Hash(EntryBytes(entry)))

\* func bytesConvSeriesID(data []byte) common.SeriesID
bytesConvSeriesID(data) == BytesToUint64(data)

\* func HashEntity(entity Entity) []byte
RECURSIVE HashEntity(_)
HashEntity(entity) ==
    IF Len(entity) = 0 THEN <<>>
    ELSE hash(Head(entity)) \o HashEntity(Tail(entity))

\* the entities series are written under, and the entities paths are made of
ConcreteEntities == UNION { [1..n -> EntryValues] : n \in 1..MaxEntries }

PathEntities == UNION { [1..n -> EntryValues \cup {AnyEntry}] : n \in 1..MaxEntries }

(***************************************************************************)
(* NewPath                                                                 *)
(***************************************************************************)
\* one turn of the loop over the entries, with offset counted past an ANY
PathStepCountAll(p, e) ==
    IF e = AnyEntry
    THEN [p EXCEPT !.encounterAny = TRUE,
                   !.mask = @ \o zeroIntBytes,
                   !.template = @ \o zeroIntBytes]
    ELSE [p EXCEPT !.offset = @ + WordLen,
                   !.mask = @ \o maxIntBytes,
                   !.template = @ \o hash(e)]

\* one turn of for _, e := range entries
PathStep(p, e) ==
    IF e = AnyEntry
    THEN [p EXCEPT !.encounterAny = TRUE,
                   !.mask = @ \o zeroIntBytes,
                   !.template = @ \o zeroIntBytes]
    ELSE [p EXCEPT !.offset = IF ~p.encounterAny THEN @ + WordLen ELSE @,
                   !.mask = @ \o maxIntBytes,
                   !.template = @ \o hash(e)]

RECURSIVE PathLoop(_, _)
PathLoop(p, entries) ==
    IF Len(entries) = 0 THEN p
    ELSE PathLoop(PathStep(p, Head(entries)), Tail(entries))

\* NewPath with the whole template taken as the prefix
NewPathPrefixAll(entries) ==
    LET p == PathLoop([mask |-> <<>>, template |-> <<>>, offset |-> 0,
                       encounterAny |-> FALSE], entries)
    IN [prefix   |-> p.template,
        mask     |-> p.mask,
        template |-> p.template,
        isFull   |-> ~p.encounterAny]

NewPath(entries) ==
    LET p == PathLoop([mask |-> <<>>, template |-> <<>>, offset |-> 0,
                       encounterAny |-> FALSE], entries)
    IN [prefix   |-> SubSeq(p.template, 1, p.offset),
        mask     |-> p.mask,
        template |-> p.template,
        isFull   |-> ~p.encounterAny]

(***************************************************************************)
(* The series-metadata KV store (kv.Store)                                 *)
(***************************************************************************)
\* Put(key, val)
KvPut(m, key, val) ==
    [k \in DOMAIN m \cup {key} |-> IF k = key THEN val ELSE m[k]]

\* a < b in byte order, the order Scan visits keys in
RECURSIVE BytesLess(_, _)
BytesLess(a, b) ==
    IF Len(b) = 0 THEN FALSE
    ELSE IF Len(a) = 0 THEN TRUE
    ELSE IF Head(a) # Head(b) THEN Head(a) < Head(b)
    ELSE BytesLess(Tail(a), Tail(b))

HasPrefix(key, prefix) ==
    Len(key) >= Len(prefix) /\ SubSeq(key, 1, Len(prefix)) = prefix

RECURSIVE InOrder(_)
InOrder(keys) ==
    IF keys = {} THEN <<>>
    ELSE LET k == CHOOSE k \in keys : \A o \in keys \ {k} : BytesLess(k, o)
         IN <<k>> \o InOrder(keys \ {k})

\* Scan(prefix, opts, f): the keys f is called with, in order
ScanKeys(m, prefix) == InOrder({ k \in DOMAIN m : HasPrefix(k, prefix) })

(***************************************************************************)
(* seriesDB.GetByHashKey / Get                                             *)
(***************************************************************************)
\* the series returned for a value read from the KV (line 120), hashed again
SeriesOfStoredRehashed(value) == bytesConvSeriesID(Uint64ToBytes(Hash(value)))

\* newSeries(s.context(), bytesConvSeriesID(seriesID), s) for a value read
SeriesOfStored(value) == bytesConvSeriesID(value)

\* seriesID = hash(key)
NewSeriesID(key) == Uint64ToBytes(Hash(key))

\* the mutex is held by nobody
NoProc == 0

Procs == 1..NumProcs

\* the entities concurrent callers contend for
ContendedEntities == { e \in ConcreteEntities : Len(e) = 1 }

IdleProc == [pc |-> "idle", entity |-> <<>>, key |-> <<>>, via |-> "", id |-> 0, err |-> "nil"]

InitSeries ==
    /\ kv = <<>>
    /\ mutex = NoProc
    /\ procs = [p \in Procs |-> IdleProc]
    /\ gets = {}
    /\ listed = [status |-> "none"]

\* Get(entity): key := HashEntity(entity); then GetByHashKey's lock-free read
GetRead(p) ==
    /\ procs[p].pc = "idle"
    /\ \E entity \in ContendedEntities :
         LET key == HashEntity(entity) IN
         \/ /\ procs' = [procs EXCEPT ![p] = [IdleProc EXCEPT !.pc = "done",
                                     !.entity = entity, !.key = key, !.err = "ErrGet"]]
            /\ gets' = gets
         \/ /\ key \in DOMAIN kv
            /\ procs' = [procs EXCEPT ![p] = [IdleProc EXCEPT !.pc = "done",
                                     !.entity = entity, !.key = key, !.via = "read",
                                     !.id = SeriesOfStored(kv[key])]]
            /\ gets' = gets \cup {[entity |-> entity, id |-> SeriesOfStored(kv[key])]}
         \/ /\ key \notin DOMAIN kv
            /\ procs' = [procs EXCEPT ![p] = [IdleProc EXCEPT !.pc = "lock",
                                     !.entity = entity, !.key = key]]
            /\ gets' = gets
    /\ UNCHANGED <<kv, mutex, listed, analyzeVars, executeVars, planVars>>

\* s.Lock()
GetLock(p) ==
    /\ procs[p].pc = "lock"
    /\ mutex = NoProc
    /\ mutex' = p
    /\ procs' = [procs EXCEPT ![p].pc = "put"]
    /\ UNCHANGED <<kv, gets, listed, analyzeVars, executeVars, planVars>>

\* seriesID = hash(key); Put(key, seriesID); return, with the deferred Unlock
GetPut(p) ==
    /\ procs[p].pc = "put"
    /\ mutex = p
    /\ mutex' = NoProc
    /\ LET key      == procs[p].key
           seriesID == NewSeriesID(key)
       IN \/ /\ kv' = kv
             /\ procs' = [procs EXCEPT ![p].pc = "done", ![p].err = "ErrPut"]
             /\ gets' = gets
          \/ /\ kv' = KvPut(kv, key, seriesID)
             /\ procs' = [procs EXCEPT ![p].pc = "done", ![p].via = "put",
                                       ![p].id = bytesConvSeriesID(seriesID)]
             /\ gets' = gets \cup
                   {[entity |-> procs[p].entity, id |-> bytesConvSeriesID(seriesID)]}
    /\ UNCHANGED <<listed, analyzeVars, executeVars, planVars>>

(***************************************************************************)
(* seriesDB.List, and Get as one call of a single caller                   *)
(***************************************************************************)
\* a & b on two bytes
RECURSIVE BitAnd(_, _)
BitAnd(a, b) ==
    IF a = 0 \/ b = 0 THEN 0
    ELSE (a % 2) * (b % 2) + 2 * BitAnd(a \div 2, b \div 2)

\* comparableKey[i] = path.mask[i] & b, for a key no longer than the mask
ComparableKey(path, key) == [i \in 1..Len(key) |-> BitAnd(path.mask[i], key[i])]

\* the Scan callback over the keys in order; unreadable are the keys whose
\* getVal fails.  A key longer than path.mask indexes the mask out of range.
RECURSIVE ScanLoop(_, _, _, _, _)
ScanLoop(m, path, keys, unreadable, acc) ==
    IF Len(keys) = 0 THEN acc
    ELSE LET key == Head(keys) IN
         IF Len(key) > Len(path.mask)
         THEN [acc EXCEPT !.status = "panic", !.series = <<>>]
         ELSE IF path.template = ComparableKey(path, key)
         THEN IF key \in unreadable
              THEN ScanLoop(m, path, Tail(keys), unreadable, [acc EXCEPT !.err = "ErrGetVal"])
              ELSE ScanLoop(m, path, Tail(keys), unreadable,
                            [acc EXCEPT !.series = Append(@, bytesConvSeriesID(m[key]))])
         ELSE ScanLoop(m, path, Tail(keys), unreadable, acc)

\* List(path); fault is the KV error injected into the call, if any
List(m, path, fault, unreadable) ==
    IF path.isFull
    THEN IF fault = "ErrGet" THEN [status |-> "ok", series |-> <<>>, err |-> "ErrGet"]
         ELSE IF path.prefix \in DOMAIN m
         THEN [status |-> "ok", series |-> <<bytesConvSeriesID(m[path.prefix])>>, err |-> "nil"]
         ELSE [status |-> "ok", series |-> <<>>, err |-> "nil"]
    ELSE IF fault = "ErrScan" THEN [status |-> "ok", series |-> <<>>, err |-> "ErrScan"]
         ELSE ScanLoop(m, path, ScanKeys(m, path.prefix), unreadable,
                       [status |-> "ok", series |-> <<>>, err |-> "nil"])

\* a Get of a single caller, start to return
SeqGet ==
    /\ listed.status = "none"
    /\ \A p \in Procs : procs[p].pc = "idle"
    /\ Cardinality(DOMAIN kv) < MaxSeries
    /\ \E entity \in ConcreteEntities :
         LET key == HashEntity(entity) IN
         \/ UNCHANGED <<kv, gets>>
         \/ /\ key \in DOMAIN kv
            /\ kv' = kv
            /\ gets' = gets \cup {[entity |-> entity, id |-> SeriesOfStored(kv[key])]}
         \/ /\ key \notin DOMAIN kv
            /\ mutex = NoProc
            /\ kv' = KvPut(kv, key, NewSeriesID(key))
            /\ gets' = gets \cup {[entity |-> entity, id |-> bytesConvSeriesID(NewSeriesID(key))]}
    /\ UNCHANGED <<mutex, procs, listed, analyzeVars, executeVars, planVars>>

\* the KV errors a List call can meet
ListFaults(m, path) ==
    IF path.isFull
    THEN { [fault |-> f, unreadable |-> {}] : f \in {"none", "ErrGet"} }
    ELSE { [fault |-> f, unreadable |-> {}] : f \in {"none", "ErrScan"} }
           \cup { [fault |-> "ErrGetVal", unreadable |-> {k}] : k \in DOMAIN m }

\* List(NewPath(entity)) of a single caller
DoList ==
    /\ listed.status = "none"
    /\ \A p \in Procs : procs[p].pc = "idle"
    /\ \E entity \in PathEntities :
         LET path == NewPath(entity) IN
         \E f \in ListFaults(kv, path) :
           LET res == List(kv, path, f.fault, f.unreadable) IN
           listed' = [status |-> res.status, series |-> res.series, err |-> res.err,
                      entity |-> entity, path |-> path, fault |-> f.fault,
                      unreadable |-> f.unreadable]
    /\ UNCHANGED <<kv, mutex, procs, gets, analyzeVars, executeVars, planVars>>

(***************************************************************************)
(* localIndexScan.Equal and localIndexScan.String                          *)
(***************************************************************************)
\* Time.UnixNano(): the int64 sec * 1e9 + nsec, kept as its quotient and
\* remainder by 1e9 (nsec is below 1e9 in a time.Time)
UnixNano(t) == <<t.sec, t.nsec>>

\* Time.Unix()
Unix(t) == t.sec

\* func (e Entity) Marshal() []byte: bytes.Join(data, nil)
RECURSIVE Marshal(_)
Marshal(e) ==
    IF Len(e) = 0 THEN <<>>
    ELSE EntryBytes(Head(e)) \o Marshal(Tail(e))

\* the analyzed plan the comparisons start from
BasePlan ==
    [type                |-> "LocalIndexScan",
     orderBy             |-> [index |-> "nil", sort |-> "ASC"],
     timeRange           |-> [start |-> [sec |-> 1, nsec |-> 0], end |-> [sec |-> 2, nsec |-> 0]],
     schema              |-> "sw",
     metadata            |-> [group |-> "default", name |-> "sw"],
     conditionMap        |-> <<>>,
     projectionFieldRefs |-> <<>>,
     entity              |-> << <<1>>, <<2>> >>]

\* a condition as Analyze stores it in the condition map
CondOn(pos, tag) ==
    [pos |-> pos, kind |-> "binary", tag |-> tag, resolves |-> TRUE, op |-> "EQ", lit |-> <<pos>>]

\* condition maps of one and of two index rules
OneRuleMap == PutLocal(<<>>, "L1", CondOn(1, "a"))

TwoRuleMap == PutLocal(PutLocal(OneRuleMap, "L1", CondOn(2, "b")), "L2", CondOn(3, "c"))

\* the values each analyzed field takes besides BasePlan's
FieldValues ==
    [orderBy             |-> {[index |-> "L1", sort |-> "ASC"]},
     timeRange           |-> {[start |-> [sec |-> 1, nsec |-> 5], end |-> [sec |-> 2, nsec |-> 0]],
                              [start |-> [sec |-> 1, nsec |-> 0], end |-> [sec |-> 3, nsec |-> 0]]},
     schema              |-> {"sw_proj"},
     metadata            |-> {[group |-> "other", name |-> "sw"], [group |-> "default", name |-> "log"]},
     conditionMap        |-> {OneRuleMap, TwoRuleMap},
     projectionFieldRefs |-> {<< <<"trace">> >>},
     entity              |-> {<< <<1, 2>> >>, << <<1>>, <<3>> >>, << AnyEntry, <<1>>, <<2>> >>}]

\* the plans compared: BasePlan, the plans one field away from it, one plan
\* two fields away, and a plan of the other variant
LocalPlans ==
    {BasePlan}
      \cup { [BasePlan EXCEPT !.orderBy = v] : v \in FieldValues.orderBy }
      \cup { [BasePlan EXCEPT !.timeRange = v] : v \in FieldValues.timeRange }
      \cup { [BasePlan EXCEPT !.schema = v] : v \in FieldValues.schema }
      \cup { [BasePlan EXCEPT !.metadata = v] : v \in FieldValues.metadata }
      \cup { [BasePlan EXCEPT !.conditionMap = v] : v \in FieldValues.conditionMap }
      \cup { [BasePlan EXCEPT !.projectionFieldRefs = v] : v \in FieldValues.projectionFieldRefs }
      \cup { [BasePlan EXCEPT !.entity = v] : v \in FieldValues.entity }
      \cup { [BasePlan EXCEPT !.entity = << <<1, 2>> >>, !.conditionMap = TwoRuleMap] }

GlobalPlans ==
    { [type |-> "GlobalIndexScan", projectionFieldRefs |-> <<>>,
       metadata |-> BasePlan.metadata, globalIndexRule |-> "G1", expr |-> CondOn(1, "g")] }

\* bytes.Equal
BytesEqual(a, b) == a = b

\* cmp.Equal: deep equality; map keys (rule pointers) compare by identity
CmpEqual(x, y) == x = y

\* func (i *localIndexScan) Equal(plan Plan) bool
Equal(i, plan) ==
    IF plan.type # "LocalIndexScan" THEN FALSE
    ELSE /\ i.metadata.group = plan.metadata.group
         /\ i.metadata.name = plan.metadata.name
         /\ UnixNano(i.timeRange.start) = UnixNano(plan.timeRange.start)
         /\ UnixNano(i.timeRange.end) = UnixNano(plan.timeRange.end)
         /\ BytesEqual(Marshal(i.entity), Marshal(plan.entity))
         /\ CmpEqual(i.projectionFieldRefs, plan.projectionFieldRefs)
         /\ CmpEqual(i.schema, plan.schema)
         /\ CmpEqual(i.conditionMap, plan.conditionMap)
         /\ CmpEqual(i.orderBy, plan.orderBy)

\* the orders in which a range over a Go map can visit its keys
RangeOrders(m) ==
    { f \in [1..Cardinality(DOMAIN m) -> DOMAIN m] :
        \A x, y \in 1..Cardinality(DOMAIN m) : x # y => f[x] # f[y] }

\* cond.String() of a binary expression
CondString(cond) == <<cond.tag, "=", cond.pos>>

\* func (i *localIndexScan) String() string, the condition map ranged over in
\* the given order; the string is kept as its parts in the order printed
String(i, order) ==
    LET exprStr == [n \in 1..Len(order) |->
                      [c \in 1..Len(i.conditionMap[order[n]]) |->
                          CondString(i.conditionMap[order[n]][c])]]
    IN <<"IndexScan: startTime=", Unix(i.timeRange.start),
         ",endTime=", Unix(i.timeRange.end),
         ",Metadata{group=", i.metadata.group, ",name=", i.metadata.name,
         "},conditions=", exprStr,
         "; projection=",
         IF Len(i.projectionFieldRefs) = 0 THEN "None" ELSE i.projectionFieldRefs>>

InitPlans == compared = [status |-> "none"]

\* i.Equal(plan) and plan.Equal(i), i.String() twice and plan.String() once
DoCompare ==
    /\ compared.status = "none"
    /\ \E i \in LocalPlans, plan \in LocalPlans \cup GlobalPlans :
         \E o1, o2 \in RangeOrders(i.conditionMap) :
           \E o3 \in IF plan.type = "LocalIndexScan"
                     THEN RangeOrders(plan.conditionMap) ELSE {<<>>} :
             compared' = [status  |-> "done", i |-> i, plan |-> plan,
                          equal   |-> Equal(i, plan),
                          back    |-> IF plan.type = "LocalIndexScan"
                                      THEN Equal(plan, i) ELSE FALSE,
                          str     |-> String(i, o1),
                          again   |-> String(i, o2),
                          planStr |-> IF plan.type = "LocalIndexScan"
                                      THEN String(plan, o3) ELSE <<>>]
    /\ UNCHANGED <<analyzeVars, executeVars, seriesVars, built, converted, spanned, ruled>>

(***************************************************************************)
(* exprToCondition                                                         *)
(***************************************************************************)
\* the binary predicates a rule's list is made of: FieldRef op Literal
BinaryExprs == [tag : {"a", "b"}, op : {"EQ", "NE"}, lit : {<<1>>, <<2>>}]

\* the lists of n binary predicates
ExprLists(n) == [1..n -> BinaryExprs]

\* index.ConditionValue{Values: r.Bytes(), Op: bExpr.op}
ConditionValue(bExpr) == [values |-> bExpr.lit, op |-> bExpr.op]

\* one turn of the loop with the existing list replaced
CondStepOverwrite(cond, bExpr) ==
    [t \in DOMAIN cond \cup {bExpr.tag} |->
        IF t = bExpr.tag THEN <<ConditionValue(bExpr)>> ELSE cond[t]]

\* one turn of for _, expr := range exprs
CondStep(cond, bExpr) ==
    IF bExpr.tag \in DOMAIN cond
    THEN [cond EXCEPT ![bExpr.tag] = Append(@, ConditionValue(bExpr))]
    ELSE [t \in DOMAIN cond \cup {bExpr.tag} |->
            IF t = bExpr.tag THEN <<ConditionValue(bExpr)>> ELSE cond[t]]

RECURSIVE CondLoop(_, _)
CondLoop(cond, exprs) ==
    IF Len(exprs) = 0 THEN cond
    ELSE CondLoop(CondStep(cond, Head(exprs)), Tail(exprs))

\* func exprToCondition(exprs []Expr) tsdb.Condition
exprToCondition(exprs) == CondLoop(<<>>, exprs)

\* exprToCondition applied to one list of binary predicates
DoExprToCondition ==
    /\ converted.status = "none"
    /\ \E n \in 0..MaxConds : \E exprs \in ExprLists(n) :
         converted' = [status |-> "done", exprs |-> exprs, cond |-> exprToCondition(exprs)]
    /\ UNCHANGED <<analyzeVars, executeVars, seriesVars, compared, built, spanned, ruled>>

(***************************************************************************)
(* localIndexScan.executeInShard                                           *)
(***************************************************************************)
\* builder.OrderByIndex(i.index, i.sort) or builder.OrderByTime(i.sort)
OrderCall(i) ==
    IF i.orderBy.index # "nil"
    THEN [fn |-> "OrderByIndex", index |-> i.orderBy.index, sort |-> i.orderBy.sort]
    ELSE [fn |-> "OrderByTime", index |-> "nil", sort |-> i.orderBy.sort]

\* b.Filter(idxRule, exprToCondition(exprs))
FilterCall(idxRule, exprs) ==
    [fn |-> "Filter", rule |-> idxRule, cond |-> exprToCondition(exprs)]

\* the builders with the ordering configurator put last
BuildersOrderLast(i, order) ==
    (IF Cardinality(DOMAIN i.conditionMap) > 0
     THEN << [n \in 1..Len(order) |-> FilterCall(order[n], i.conditionMap[order[n]])] >>
     ELSE <<>>)
    \o << <<OrderCall(i)>> >>

\* var builders []seekerBuilder: each configurator as the calls it makes on
\* a builder; the condition map is ranged over in the given order
Builders(i, order) ==
    << <<OrderCall(i)>> >>
    \o (IF Cardinality(DOMAIN i.conditionMap) > 0
        THEN << [n \in 1..Len(order) |-> FilterCall(order[n], i.conditionMap[order[n]])] >>
        ELSE <<>>)

\* the calls the configurators make on one fresh builder, in order
RECURSIVE Configure(_)
Configure(builders) ==
    IF Len(builders) = 0 THEN <<>>
    ELSE Head(builders) \o Configure(Tail(builders))

\* executeForShard(seriesList, timeRange, builders...): a fresh builder per
\* series, every configurator applied to it
ExecuteForShard(nSeries, builders) == [s \in 1..nSeries |-> Configure(builders)]

InitBuild ==
    /\ built = [status |-> "none"]
    /\ converted = [status |-> "none"]

\* an analyzed plan starts being executed shard by shard
StartBuild ==
    /\ built.status = "none"
    /\ \E i \in LocalPlans : built' = [status |-> "running", i |-> i, shards |-> <<>>]
    /\ UNCHANGED <<analyzeVars, executeVars, seriesVars, compared, converted, spanned, ruled>>

\* executeInShard(shard): List, the configurators, executeForShard
BuildInShard ==
    /\ built.status = "running"
    /\ Len(built.shards) < MaxShards
    /\ \/ built' = [built EXCEPT !.status = "failed",
                                 !.shards = Append(@, [listed |-> FALSE, nSeries |-> 0, calls |-> <<>>])]
       \/ \E nSeries \in 0..MaxSeries, order \in RangeOrders(built.i.conditionMap) :
            built' = [built EXCEPT !.shards = Append(@,
                        [listed  |-> TRUE, nSeries |-> nSeries,
                         calls   |-> ExecuteForShard(nSeries, Builders(built.i, order))])]
    /\ UNCHANGED <<analyzeVars, executeVars, seriesVars, compared, converted, spanned, ruled>>

(***************************************************************************)
(* seriesDB.span                                                           *)
(***************************************************************************)
\* most segments of a series database
MaxSegments == 3

\* most blocks of a segment
MaxBlocks == 2

\* s.lst: the segments, each the list of its blocks; a block is named by
\* its segment and its place in it
SegmentLists ==
    UNION { { [seg \in 1..n |-> [b \in 1..sizes[seg] |-> [segID |-> seg, blockID |-> b]]]
              : sizes \in [1..n -> 0..MaxBlocks] }
            : n \in 0..MaxSegments }

\* the time ranges span is asked for
TimeRanges == { [start |-> 0, end |-> 50], [start |-> 100, end |-> 200] }

\* b.delegate()
Delegate(b) == b

\* func (s *seriesDB) span(_ TimeRange) []blockDelegate; s.lst[0] of an
\* empty segment list is out of range
span(lst, timeRange) ==
    IF Len(lst) = 0
    THEN [status |-> "panic", result |-> <<>>]
    ELSE [status |-> "ok", result |-> [b \in 1..Len(lst[1]) |-> Delegate(lst[1][b])]]

InitSpan == spanned = [status |-> "none"]

\* span called for two time ranges on one database
DoSpan ==
    /\ spanned.status = "none"
    /\ \E lst \in SegmentLists, first \in TimeRanges, second \in TimeRanges :
         spanned' = [status |-> "done", lst |-> lst, first |-> first, second |-> second,
                     one |-> span(lst, first), other |-> span(lst, second)]
    /\ UNCHANGED <<analyzeVars, executeVars, seriesVars, compared, built, converted, ruled>>

(***************************************************************************)
(* service.IndexRules (metadata service)                                   *)
(***************************************************************************)
\* most index-rule bindings of the subject's group
MaxBindings == 2

\* time.Now() of the call, and the windows of the bindings around it
Now == 10

Windows == { [beginAt |-> 10, expireAt |-> 20],
             [beginAt |-> 15, expireAt |-> 20],
             [beginAt |-> 5, expireAt |-> 8] }

\* the index-rule bindings the registry can hold
Bindings ==
    { [beginAt |-> w.beginAt, expireAt |-> w.expireAt, subject |-> name, rules |-> rules] :
        w \in Windows, name \in {"sw", "log"}, rules \in {<<>>, <<"r1">>, <<"r1", "r2">>} }

\* the binding lists of n bindings
BindingLists(n) == [1..n -> Bindings]

\* multierr.Append(left, right): nil when both are nil
MultierrAppend(left, right) ==
    IF right = <<>> THEN left ELSE left \o right

\* the binding loop: the rules of the active bindings of the subject
RECURSIVE FoundRules(_, _, _)
FoundRules(bindings, subject, foundRules) ==
    IF Len(bindings) = 0 THEN foundRules
    ELSE LET binding == Head(bindings) IN
         IF binding.beginAt > Now \/ binding.expireAt < Now
         THEN FoundRules(Tail(bindings), subject, foundRules)
         ELSE IF binding.subject # subject.name
         THEN FoundRules(Tail(bindings), subject, foundRules)
         ELSE FoundRules(Tail(bindings), subject, foundRules \o binding.rules)

\* the rule loop: err is the error of ListIndexRuleBinding, nil here; the
\* rules in failing are the ones GetIndexRule fails for
RECURSIVE FetchRules(_, _, _, _, _)
FetchRules(foundRules, failing, err, result, indexRuleErr) ==
    IF Len(foundRules) = 0 THEN [result |-> result, err |-> indexRuleErr]
    ELSE LET rule == Head(foundRules) IN
         IF rule \in failing
         THEN FetchRules(Tail(foundRules), failing, err, result,
                         MultierrAppend(indexRuleErr, err))
         ELSE FetchRules(Tail(foundRules), failing, err, Append(result, rule), indexRuleErr)

\* func (s *service) IndexRules(ctx, subject) ([]*databasev1.IndexRule, error);
\* an error is a list of the errors joined, nil the empty list
IndexRulesOf(bindings, listFails, failing, subject) ==
    IF listFails
    THEN [result |-> <<>>, err |-> <<"ErrList">>]
    ELSE FetchRules(FoundRules(bindings, subject, <<>>), failing, <<>>, <<>>, <<>>)

InitRules == ruled = [status |-> "none"]

\* IndexRules called for the subject sw of the group
DoIndexRules ==
    /\ ruled.status = "none"
    /\ \E n \in 0..MaxBindings : \E bindings \in BindingLists(n) :
         \E listFails \in BOOLEAN, failing \in SUBSET {"r1", "r2"} :
           LET subject == [group |-> "default", name |-> "sw"]
               res     == IndexRulesOf(bindings, listFails, failing, subject)
           IN ruled' = [status |-> "done", bindings |-> bindings, subject |-> subject,
                        listFails |-> listFails, failing |-> failing,
                        result |-> res.result, err |-> res.err]
    /\ UNCHANGED <<analyzeVars, executeVars, seriesVars, compared, built, converted, spanned>>

Init == InitAnalyze /\ InitExecute /\ InitSeries /\ InitPlans /\ InitBuild /\ InitSpan /\ InitRules

SpecAnalyze == Init /\ [][DoAnalyze]_vars

SpecExecute == Init /\ [][ExecuteShards \/ ExecuteInShard \/ ExecuteNext \/ ExecuteAgain]_vars

SpecSeries == Init /\ [][\E p \in Procs : GetRead(p) \/ GetLock(p) \/ GetPut(p)]_vars

SpecList == Init /\ [][SeqGet \/ DoList]_vars

SpecProject == Init /\ [][AnalyzeToExecute \/ ExecuteAnalyzed]_vars

SpecPlans == Init /\ [][DoCompare]_vars

SpecBuild == Init /\ [][StartBuild \/ BuildInShard]_vars

SpecConditions == Init /\ [][DoExprToCondition]_vars

SpecSpan == Init /\ [][DoSpan]_vars

SpecRules == Init /\ [][DoIndexRules]_vars

(***************************************************************************)
(* Properties of Analyze                                                   *)
(***************************************************************************)
Analyzed == uis # NoPlan

TheConds == uis.u.conditions

\* positions of the binary predicates of the analyzed plan
BinaryAt == { i \in 1..Len(TheConds) : TheConds[i].kind = "binary" }

\* positions of the binary predicates whose tag has a rule of the location
TargetsAt(location) ==
    { i \in BinaryAt : /\ IndexDefined(TheConds[i].tag).defined
                       /\ RuleLocation(IndexDefined(TheConds[i].tag).rule) = location }

UndefinedAt == { i \in BinaryAt : ~IndexDefined(TheConds[i].tag).defined }

\* every Resolve call of the plan returns nil
AllResolve == \A i \in 1..Len(TheConds) : TheConds[i].resolves

ProjectionBinds == CreateRef(uis.u.projectionFields).err = NoErr

OrderByBinds == AnalyzeOrderBy(uis.u.unresolvedOrderBy).err = NoErr

\* the (key, index) places of conditionMap that hold the expression
PlacesOf(conditionMap, cond) ==
    { <<r, j>> \in IndexRules \X (1..MaxConds + 1) :
        /\ r \in DOMAIN conditionMap
        /\ j \in 1..Len(conditionMap[r])
        /\ conditionMap[r][j] = cond }

\* C1: a plan whose binary predicates all target SERIES-LOCAL rules (and
\* whose Resolve, CreateRef and orderBy analysis report no error) analyzes to
\* a LocalIndexScan; every predicate is in conditionMap exactly once, under
\* the rule IndexDefined returned for its tag, nothing else is in the map,
\* and the predicates under one key are in condition-list order.
C1_AllLocalGivesLocalScan ==
    (/\ Analyzed
     /\ BinaryAt = TargetsAt("LOCATION_SERIES")
     /\ AllResolve /\ ProjectionBinds /\ OrderByBinds)
    => /\ analyzed.err = NoErr
       /\ analyzed.plan.type = "LocalIndexScan"
       /\ LET m == analyzed.plan.conditionMap IN
          /\ \A i \in BinaryAt :
                PlacesOf(m, TheConds[i]) \subseteq
                    { <<IndexDefined(TheConds[i].tag).rule, j>> : j \in 1..MaxConds + 1 }
                /\ Cardinality(PlacesOf(m, TheConds[i])) = 1
          /\ \A r \in DOMAIN m :
                /\ \A j \in 1..Len(m[r]) : m[r][j].pos \in BinaryAt
                                             /\ m[r][j] = TheConds[m[r][j].pos]
                /\ \A j, k \in 1..Len(m[r]) : j < k => m[r][j].pos < m[r][k].pos

\* C1 witness: two predicates on tags a and b of rule L1 and one on c (L2)
\* were analyzed into a LocalIndexScan with two keys
C1_Witness ==
    /\ Analyzed
    /\ BinaryAt = TargetsAt("LOCATION_SERIES")
    /\ Cardinality(BinaryAt) = 3
    /\ analyzed.plan.type = "LocalIndexScan"
    /\ DOMAIN analyzed.plan.conditionMap = {"L1", "L2"}
    /\ Len(analyzed.plan.conditionMap["L1"]) = 2

\* C2: a plan with exactly one predicate on a GLOBAL rule's tag (its other
\* predicates indexed, Resolve and CreateRef reporting no error) analyzes to a
\* GlobalIndexScan bound to that rule and that expression, for every entity,
\* time range and orderBy, a valid orderBy or not.
C2_OneGlobalGivesGlobalScan ==
    (/\ Analyzed
     /\ Cardinality(TargetsAt("LOCATION_GLOBAL")) = 1
     /\ UndefinedAt = {}
     /\ AllResolve /\ ProjectionBinds)
    => LET i == CHOOSE i \in TargetsAt("LOCATION_GLOBAL") : TRUE IN
       /\ analyzed.err = NoErr
       /\ analyzed.plan.type = "GlobalIndexScan"
       /\ analyzed.plan.globalIndexRule = IndexDefined(TheConds[i].tag).rule
       /\ analyzed.plan.expr = TheConds[i]

\* C2 witness: a single GLOBAL predicate was analyzed together with an
\* orderBy that names no index rule, for the entity with an ANY entry
C2_Witness ==
    /\ Analyzed
    /\ Len(TheConds) = 1
    /\ TargetsAt("LOCATION_GLOBAL") = {1}
    /\ uis.u.unresolvedOrderBy.indexRuleName = "missing"
    /\ uis.u.entity = <<"ANY", "instB">>
    /\ uis.u.startTime = 0
    /\ analyzed.plan.type = "GlobalIndexScan"

\* the distinct GLOBAL rules the plan's predicates touch
GlobalRulesTouched ==
    { IndexDefined(TheConds[i].tag).rule : i \in TargetsAt("LOCATION_GLOBAL") }

\* C3: with at least one GLOBAL condition (and no earlier error), Analyze
\* fails with ErrMultipleGlobalIndexes if the global conditions touch more
\* than one distinct global rule, and otherwise returns a GlobalIndexScan
\* bound to the one rule they all target.
C3_MultipleGlobalOnlyIfDistinctRules ==
    (/\ Analyzed
     /\ TargetsAt("LOCATION_GLOBAL") # {}
     /\ UndefinedAt = {}
     /\ AllResolve /\ ProjectionBinds)
    => IF Cardinality(GlobalRulesTouched) > 1
       THEN analyzed.err = Err("ErrMultipleGlobalIndexes", "") /\ analyzed.plan = NoPlan
       ELSE /\ analyzed.err = NoErr
            /\ analyzed.plan.type = "GlobalIndexScan"
            /\ analyzed.plan.globalIndexRule \in GlobalRulesTouched

\* the first binary predicate whose tag has no index
FirstUndefined == CHOOSE i \in UndefinedAt : \A j \in UndefinedAt : i <= j

\* C4: when a binary predicate names a tag without an index (and the Resolve
\* calls up to it return nil), Analyze fails with ErrIndexNotDefined naming
\* the tag of the first such predicate, returns no plan, and stops there: no
\* CreateRef, no Proj, no orderBy analysis, and nothing but Resolve and
\* IndexDefined calls for the conditions up to that predicate.
C4_UndefinedTagFails ==
    (/\ Analyzed
     /\ UndefinedAt # {}
     /\ \A i \in 1..FirstUndefined : TheConds[i].resolves)
    => /\ analyzed.err = Err("ErrIndexNotDefined", TheConds[FirstUndefined].tag)
       /\ analyzed.plan = NoPlan
       /\ \A k \in 1..Len(calls) : calls[k] \in {"Resolve", "IndexDefined"}
       /\ Len(calls) = Cardinality({ i \in 1..FirstUndefined : TheConds[i].kind # "plain" })
                          + Cardinality({ i \in 1..FirstUndefined : i \in BinaryAt })

\* C4 witness: a plan with a local predicate, then a predicate on xyz, and
\* a projection, was rejected
C4_Witness ==
    /\ Analyzed
    /\ Len(TheConds) = 3
    /\ UndefinedAt = {2}
    /\ 1 \in TargetsAt("LOCATION_SERIES")
    /\ Len(uis.u.projectionFields) > 0
    /\ analyzed.err = Err("ErrIndexNotDefined", "xyz")

\* C5: in every LocalIndexScan Analyze produces, every key of conditionMap is
\* a SERIES-LOCAL rule, every expression under a key names a tag the key's
\* rule covers, and the predicates that resolve to one rule are all under
\* that one key.
C5_ConditionMapInvariant ==
    (Analyzed /\ analyzed.plan.type = "LocalIndexScan")
    => LET m == analyzed.plan.conditionMap IN
       /\ \A r \in DOMAIN m :
             /\ RuleLocation(r) = "LOCATION_SERIES"
             /\ Len(m[r]) > 0
             /\ \A j \in 1..Len(m[r]) : m[r][j].tag \in RuleTags(r)
       /\ \A i \in TargetsAt("LOCATION_SERIES") :
             LET r == IndexDefined(TheConds[i].tag).rule IN
             /\ r \in DOMAIN m
             /\ \E j \in 1..Len(m[r]) : m[r][j] = TheConds[i]
       /\ Cardinality(DOMAIN m)
             = Cardinality({ IndexDefined(TheConds[i].tag).rule :
                               i \in TargetsAt("LOCATION_SERIES") })

\* C5 witness: predicates on a and b (both of rule L1) gave one entry with
\* two expressions
C5_Witness ==
    /\ Analyzed
    /\ analyzed.plan.type = "LocalIndexScan"
    /\ Len(TheConds) = 2
    /\ TheConds[1].tag = "a" /\ TheConds[2].tag = "b"
    /\ DOMAIN analyzed.plan.conditionMap = {"L1"}
    /\ Len(analyzed.plan.conditionMap["L1"]) = 2

(***************************************************************************)
(* Properties of Execute                                                   *)
(***************************************************************************)
Executed == run.pc = "done"

\* every item of every iterator of every shard visited
AllItems ==
    UNION { UNION { { ItemsOf(sh, k, store[sh][k])[j] : j \in 1..Len(store[sh][k]) }
                    : k \in 1..Len(store[sh]) }
            : sh \in 1..Len(store) }

\* the item an element was made from
ItemOf(elem) == CHOOSE it \in AllItems : ParseElementID(it) = elem.elementId

\* C6: when no call fails, Execute returns one element for every item of
\* every iterator of every shard (none lost, none twice; the items are
\* pairwise distinct), and the elements are in the comparator's order.
C6_MergeSortedPermutation ==
    (Executed /\ executed.failed.fn = "none")
    => /\ executed.err = NoErr
       /\ Len(store) = run.nShards
       /\ Len(executed.elems) = Cardinality(AllItems)
       /\ \A it \in AllItems :
            Cardinality({ j \in 1..Len(executed.elems) :
                            /\ executed.elems[j].elementId = ParseElementID(it)
                            /\ executed.elems[j].timestamp = it.key }) = 1
       /\ \A j, k \in 1..Len(executed.elems) :
            j < k => ~Less(scan.sort, ItemOf(executed.elems[k]), ItemOf(executed.elems[j]))

\* C6 witness: two shards were merged and an item of the second shard came
\* out between two items of the first
C6_Witness ==
    /\ Executed
    /\ executed.failed.fn = "none"
    /\ Len(store) = 2
    /\ Len(executed.elems) = 3
    /\ executed.elems[1].elementId[1] = SeriesIDOf(1, 1)
    /\ executed.elems[2].elementId[1] = SeriesIDOf(2, 1)
    /\ executed.elems[3].elementId[1] = SeriesIDOf(1, 1)

\* C7: when Shards, a shard's List or executeForShard, or an item's
\* projectItem or ParseElementID fails, Execute returns that error and no
\* element; the failing call is the last call made, so no shard after the
\* failing one is contacted.
C7_ErrorsAbortWithoutElements ==
    executed.failed.fn # "none"
    => /\ Executed
       /\ executed.err = ErrAt(executed.failed.fn, executed.failed.at)
       /\ executed.elems = <<>>
       /\ storage[Len(storage)] = executed.failed
       /\ \A c \in 1..(Len(storage) - 1) : storage[c] # executed.failed
       /\ executed.failed.fn \in {"Shards", "List", "executeForShard"}
            => \A c \in 1..Len(storage) :
                 /\ storage[c].fn \in {"Shards", "List", "executeForShard"}
                 /\ storage[c].at <= executed.failed.at

\* C7 witness: the element id of the second merged item failed to parse,
\* after one element had been built from the items of two shards
C7_Witness ==
    /\ Executed
    /\ executed.failed = [fn |-> "ParseElementID", at |-> 2]
    /\ Len(store) = 2
    /\ Len(run.elems) = 1
    /\ executed.err = ErrAt("ParseElementID", 2)
    /\ executed.elems = <<>>

(***************************************************************************)
(* Properties of the series directory                                      *)
(***************************************************************************)
Returned(p) == procs[p].pc = "done" /\ procs[p].err = "nil"

\* C8: in every interleaving of concurrent Get calls on a directory that
\* starts empty, the calls that return a series for one entity return the
\* same series id, and from the return on the series-metadata KV holds, under
\* the entity's hashed key, the entry (one per key) whose value is that id;
\* the KV holds no other keys than the ones asked for.
C8_ConcurrentGetsConverge ==
    /\ \A p, q \in Procs :
         (Returned(p) /\ Returned(q) /\ procs[p].entity = procs[q].entity)
         => procs[p].id = procs[q].id
    /\ \A p \in Procs :
         Returned(p)
         => /\ HashEntity(procs[p].entity) \in DOMAIN kv
            /\ bytesConvSeriesID(kv[HashEntity(procs[p].entity)]) = procs[p].id
    /\ DOMAIN kv \subseteq { procs[p].key : p \in Procs }

\* C8 witness: two callers both missed the entity in the lock-free read
\* and both inserted it, one after the other, behind the mutex
C8_Witness ==
    /\ procs[1].pc = "done" /\ procs[2].pc = "done"
    /\ procs[1].via = "put" /\ procs[2].via = "put"
    /\ procs[1].entity = procs[2].entity

\* C8 witness of the read path: one caller inserted, another found the entry
C8_WitnessRead ==
    \E p, q \in Procs :
        /\ Returned(p) /\ Returned(q)
        /\ procs[p].via = "put" /\ procs[q].via = "read"
        /\ procs[p].entity = procs[q].entity

Listed == listed.status # "none"

\* (key & mask) == template, for a key as long as the mask
Matches(path, key) ==
    /\ Len(key) = Len(path.mask)
    /\ \A i \in 1..Len(key) : BitAnd(key[i], path.mask[i]) = path.template[i]

SeriesSet(series) == { series[i] : i \in 1..Len(series) }

\* C9: after any sequence of Get calls (no KV error in the List call),
\* List(NewPath(e)) returns the series whose id Get(e) returned, and for a
\* path with ANY entries List returns exactly the stored series whose key
\* satisfies (key & mask) == template.
C9_ListReturnsMatchingSeries ==
    (Listed /\ listed.fault = "none")
    => /\ listed.status = "ok"
       /\ listed.err = "nil"
       /\ \A g \in gets : g.entity = listed.entity => g.id \in SeriesSet(listed.series)
       /\ ~listed.path.isFull
            => /\ SeriesSet(listed.series)
                    = { bytesConvSeriesID(kv[k]) : k \in { c \in DOMAIN kv : Matches(listed.path, c) } }
               /\ Len(listed.series)
                    = Cardinality({ c \in DOMAIN kv : Matches(listed.path, c) })

\* what is left of C9 where no stored key is longer than the path's mask
C9_HoldsWithoutLongerKeys ==
    (Listed /\ listed.fault = "none"
       /\ \A k \in DOMAIN kv : Len(k) <= Len(listed.path.mask) \/ listed.path.isFull)
    => /\ listed.status = "ok"
       /\ listed.err = "nil"
       /\ \A g \in gets : g.entity = listed.entity => g.id \in SeriesSet(listed.series)
       /\ ~listed.path.isFull
            => /\ SeriesSet(listed.series)
                    = { bytesConvSeriesID(kv[k]) : k \in { c \in DOMAIN kv : Matches(listed.path, c) } }
               /\ Len(listed.series)
                    = Cardinality({ c \in DOMAIN kv : Matches(listed.path, c) })

\* the i-th 8-byte word of a byte vector
Word(bytes, i) == SubSeq(bytes, WordLen * (i - 1) + 1, WordLen * i)

\* the number of leading concrete entries of an entity
RECURSIVE LeadingConcrete(_)
LeadingConcrete(entity) ==
    IF Len(entity) = 0 \/ Head(entity) = AnyEntry THEN 0
    ELSE 1 + LeadingConcrete(Tail(entity))

\* C10: NewPath gives, entry by entry, the entry's 8-byte hash in template
\* and eight 0xFF bytes in mask for a concrete entry, eight zero bytes in
\* both for ANY; prefix is the template's part for the leading run of
\* concrete entries before the first ANY; isFull holds iff no entry is ANY.
C10_NewPathLayout ==
    Listed
    => LET e == listed.entity
           p == listed.path
       IN /\ Len(p.template) = WordLen * Len(e)
          /\ Len(p.mask) = WordLen * Len(e)
          /\ \A i \in 1..Len(e) :
               IF e[i] = AnyEntry
               THEN /\ Word(p.template, i) = [j \in 1..WordLen |-> 0]
                    /\ Word(p.mask, i) = [j \in 1..WordLen |-> 0]
               ELSE /\ Word(p.template, i) = hash(e[i])
                    /\ Word(p.mask, i) = [j \in 1..WordLen |-> 255]
          /\ p.prefix = SubSeq(p.template, 1, WordLen * LeadingConcrete(e))
          /\ p.isFull <=> (\A i \in 1..Len(e) : e[i] # AnyEntry)

\* C10 witness: a path was built for an entity with an ANY entry followed by
\* a concrete one, so the prefix is empty though the template is not all zero
C10_Witness ==
    /\ Listed
    /\ Len(listed.entity) = 2
    /\ listed.entity[1] = AnyEntry
    /\ listed.entity[2] # AnyEntry
    /\ listed.path.prefix = <<>>
    /\ ~listed.path.isFull

\* C11 as stated: template, mask and prefix of the Path built by NewPath all
\* have length 8 times the number of entries of the entity.
C11_ThreeVectorsEqualLength ==
    Listed
    => /\ Len(listed.path.template) = WordLen * Len(listed.entity)
       /\ Len(listed.path.mask) = WordLen * Len(listed.entity)
       /\ Len(listed.path.prefix) = WordLen * Len(listed.entity)

\* C11 amended: template and mask have length 8 times the number of entries;
\* prefix has length 8 times the number of concrete entries before the first
\* ANY, which is the full length exactly when the entity has no ANY.
C11_VectorLengths ==
    Listed
    => /\ Len(listed.path.template) = WordLen * Len(listed.entity)
       /\ Len(listed.path.mask) = WordLen * Len(listed.entity)
       /\ Len(listed.path.prefix) = WordLen * LeadingConcrete(listed.entity)
       /\ (Len(listed.path.prefix) = WordLen * Len(listed.entity)) <=> listed.path.isFull

\* C11 witness: a path of a concrete entry followed by ANY, whose prefix is
\* one word long and whose template and mask are two words long
C11_Witness ==
    /\ Listed
    /\ Len(listed.entity) = 2
    /\ listed.entity[1] # AnyEntry
    /\ listed.entity[2] = AnyEntry
    /\ Len(listed.path.prefix) = WordLen
    /\ Len(listed.path.mask) = 2 * WordLen
    /\ Len(listed.path.template) = 2 * WordLen

\* the getVal of an admitted key failed during the List call
GetValFailed ==
    /\ listed.fault = "ErrGetVal"
    /\ \E k \in listed.unreadable : Matches(listed.path, k) /\ HasPrefix(k, listed.path.prefix)

\* C12: List with a full path whose key is absent returns an empty result and
\* no error; a KV error other than not-found from the point get, from the
\* prefix scan, or from reading the value of an admitted key is returned.
C12_ListErrors ==
    Listed
    => /\ (listed.path.isFull /\ listed.fault = "none" /\ listed.path.prefix \notin DOMAIN kv)
            => (listed.status = "ok" /\ listed.series = <<>> /\ listed.err = "nil")
       /\ (listed.path.isFull /\ listed.fault = "ErrGet")
            => (listed.status = "ok" /\ listed.err = "ErrGet")
       /\ (~listed.path.isFull /\ listed.fault = "ErrScan")
            => (listed.status = "ok" /\ listed.err = "ErrScan")
       /\ (~listed.path.isFull /\ GetValFailed)
            => (listed.status = "ok" /\ listed.err = "ErrGetVal")

\* what is left of C12 where no stored key is longer than the path's mask
C12_HoldsWithoutLongerKeys ==
    (Listed /\ \A k \in DOMAIN kv : Len(k) <= Len(listed.path.mask) \/ listed.path.isFull)
    => /\ (listed.path.isFull /\ listed.fault = "none" /\ listed.path.prefix \notin DOMAIN kv)
            => (listed.status = "ok" /\ listed.series = <<>> /\ listed.err = "nil")
       /\ (listed.path.isFull /\ listed.fault = "ErrGet")
            => (listed.status = "ok" /\ listed.err = "ErrGet")
       /\ (~listed.path.isFull /\ listed.fault = "ErrScan")
            => (listed.status = "ok" /\ listed.err = "ErrScan")
       /\ (~listed.path.isFull /\ GetValFailed)
            => (listed.status = "ok" /\ listed.err = "ErrGetVal")

(***************************************************************************)
(* Properties of plan equality and plan strings                            *)
(***************************************************************************)
Compared == compared.status = "done"

\* the analyzed fields of two LocalIndexScan plans agree, the entity but for
\* how it is compared
OtherFieldsAgree(a, b) ==
    /\ a.metadata = b.metadata
    /\ UnixNano(a.timeRange.start) = UnixNano(b.timeRange.start)
    /\ UnixNano(a.timeRange.end) = UnixNano(b.timeRange.end)
    /\ a.projectionFieldRefs = b.projectionFieldRefs
    /\ a.schema = b.schema
    /\ a.conditionMap = b.conditionMap
    /\ a.orderBy = b.orderBy

\* C13: Equal returns true if and only if the other plan is a LocalIndexScan
\* and the two plans agree on metadata group and name, time-range endpoints
\* in nanoseconds, entity (the same sequence of entries), projection refs,
\* schema, condition map and order-by.
C13_EqualIffFieldsAgree ==
    Compared
    => (compared.equal <=>
          /\ compared.plan.type = "LocalIndexScan"
          /\ OtherFieldsAgree(compared.i, compared.plan)
          /\ compared.i.entity = compared.plan.entity)

\* what is left of C13 with the entities compared as their joined bytes
C13_EqualIffFieldsAndJoinedBytesAgree ==
    Compared
    => (compared.equal <=>
          /\ compared.plan.type = "LocalIndexScan"
          /\ OtherFieldsAgree(compared.i, compared.plan)
          /\ Marshal(compared.i.entity) = Marshal(compared.plan.entity))

\* C14: Equal on LocalIndexScan plans is reflexive, symmetric and transitive,
\* and String() agrees with it: two plans for which Equal holds, a plan and
\* itself on repeated calls included, produce the identical string, its
\* fields in the order start, end, group, name, conditions, projection.
C14_EqualCongruenceAndString ==
    Compared
    => /\ (compared.i = compared.plan) => compared.equal
       /\ (compared.plan.type = "LocalIndexScan") => (compared.equal <=> compared.back)
       /\ \A third \in LocalPlans :
             (compared.equal /\ Equal(compared.plan, third)) => Equal(compared.i, third)
       /\ compared.str = compared.again
       /\ compared.equal => compared.str = compared.planStr

\* what is left of C14 for plans whose condition map has at most one rule
C14_HoldsUpToOneRule ==
    (Compared /\ Cardinality(DOMAIN compared.i.conditionMap) <= 1)
    => /\ (compared.i = compared.plan) => compared.equal
       /\ (compared.plan.type = "LocalIndexScan") => (compared.equal <=> compared.back)
       /\ \A third \in LocalPlans :
             (compared.equal /\ Equal(compared.plan, third)) => Equal(compared.i, third)
       /\ compared.str = compared.again
       /\ compared.equal => compared.str = compared.planStr

(***************************************************************************)
(* Properties of repeated execution                                        *)
(***************************************************************************)
Reran == rerun.status = "done"

KeyBefore(a, b) == IF scan.sort = "SORT_DESC" THEN a.key > b.key ELSE a.key < b.key

\* a comes before b: by sort key, then lower series id, then lower item id
Before(a, b) ==
    \/ KeyBefore(a, b)
    \/ a.key = b.key /\ a.sid < b.sid
    \/ a.key = b.key /\ a.sid = b.sid /\ a.iid < b.iid

\* the comparator of the running scan
Comparator(a, b) == Less(ComparatorSort(scan), a, b)

BuilderCalls ==
    UNION { { built.shards[sh].calls[s] : s \in 1..built.shards[sh].nSeries }
            : sh \in { x \in 1..Len(built.shards) : built.shards[x].listed } }

\* C17: on the builder of every series of every shard, executeInShard's
\* configurators make first exactly one ordering call, OrderByIndex(index,
\* sort) if the plan's orderBy index is present and OrderByTime(sort)
\* otherwise, then exactly one Filter(rule, condition) call for each entry
\* of conditionMap, and no Filter call when conditionMap is empty.
C17_OrderingThenFilters ==
    built.status # "none"
    => \A calls_ \in BuilderCalls :
         LET i == built.i IN
         /\ Len(calls_) = 1 + Cardinality(DOMAIN i.conditionMap)
         /\ calls_[1].fn = (IF i.orderBy.index # "nil" THEN "OrderByIndex" ELSE "OrderByTime")
         /\ calls_[1].index = i.orderBy.index
         /\ calls_[1].sort = i.orderBy.sort
         /\ \A n \in 2..Len(calls_) : calls_[n].fn = "Filter"
         /\ \A rule \in DOMAIN i.conditionMap :
              Cardinality({ n \in 2..Len(calls_) :
                              /\ calls_[n].rule = rule
                              /\ calls_[n].cond = exprToCondition(i.conditionMap[rule]) }) = 1

\* C17 witness: a plan ordered by time, with conditions on two rules,
\* configured the builders of two series of a second shard, rule L2 first
C17_Witness ==
    /\ built.status = "running"
    /\ built.i.conditionMap = TwoRuleMap
    /\ Len(built.shards) = 2
    /\ built.shards[2].nSeries = 2
    /\ Len(built.shards[2].calls[2]) = 3
    /\ built.shards[2].calls[2][1].fn = "OrderByTime"
    /\ built.shards[2].calls[2][2].rule = "L2"

\* C17 witness of the other ordering: a plan ordered by index L1
C17_WitnessIndex ==
    /\ built.status = "running"
    /\ built.i.orderBy.index = "L1"
    /\ \E calls_ \in BuilderCalls : calls_ = <<[fn |-> "OrderByIndex", index |-> "L1", sort |-> "ASC"]>>

\* the predicates of a list on one tag, in input order
OnTag(exprs, tag) == SelectSeq(exprs, LAMBDA e : e.tag = tag)

\* C18: exprToCondition maps a list of binary predicates to a mapping from
\* tag name to a list of (op, literal bytes): every predicate contributes
\* exactly one pair under its own tag, the predicates of one tag are
\* accumulated in input order, and no tag appears that no predicate names.
C18_ExprToCondition ==
    converted.status = "done"
    => LET exprs == converted.exprs
           cond  == converted.cond
       IN /\ DOMAIN cond = { exprs[n].tag : n \in 1..Len(exprs) }
          /\ \A tag \in DOMAIN cond :
               /\ Len(cond[tag]) = Len(OnTag(exprs, tag))
               /\ \A n \in 1..Len(cond[tag]) :
                    /\ cond[tag][n].op = OnTag(exprs, tag)[n].op
                    /\ cond[tag][n].values = OnTag(exprs, tag)[n].lit

\* C18 witness: three predicates, two of them on the same tag with
\* different operators, the third on another tag between them
C18_Witness ==
    /\ converted.status = "done"
    /\ Len(converted.exprs) = 3
    /\ converted.exprs[1].tag = "a" /\ converted.exprs[2].tag = "b" /\ converted.exprs[3].tag = "a"
    /\ converted.exprs[1].op # converted.exprs[3].op
    /\ Len(converted.cond["a"]) = 2
    /\ Len(converted.cond["b"]) = 1

(***************************************************************************)
(* Properties of projection                                                *)
(***************************************************************************)
\* C19: when the unresolved plan has no projection fields, Analyze does not
\* call Schema.CreateRef and the plan it returns has no projection refs,
\* and every element Execute of that LocalIndexScan returns carries an
\* empty tag-families list.
C19_NoProjectionNoTagFamilies ==
    (Analyzed /\ uis.u.projectionFields = <<>>)
    => /\ \A n \in 1..Len(calls) : calls[n] # "CreateRef"
       /\ analyzed.plan.type = "LocalIndexScan" => analyzed.plan.projectionFieldRefs = <<>>
       /\ Executed => \A n \in 1..Len(executed.elems) : executed.elems[n].tagFamilies = <<>>

\* C19 witness: a plan without projection was analyzed into a LocalIndexScan
\* and its execution returned three elements merged from two shards
C19_Witness ==
    /\ Analyzed
    /\ uis.u.projectionFields = <<>>
    /\ analyzed.plan.type = "LocalIndexScan"
    /\ Executed
    /\ Len(store) = 2
    /\ Len(executed.elems) = 3

\* C19 witness of the other case: with a projection the elements carry it
C19_WitnessProjected ==
    /\ Analyzed
    /\ uis.u.projectionFields # <<>>
    /\ Executed
    /\ Len(executed.elems) > 0
    /\ executed.elems[1].tagFamilies # <<>>

(***************************************************************************)
(* Properties of span                                                      *)
(***************************************************************************)
\* every block of every segment of the database span was called on
AllBlocks ==
    UNION { { spanned.lst[seg][b] : b \in 1..Len(spanned.lst[seg]) }
            : seg \in 1..Len(spanned.lst) }

\* C20: span(timeRange) returns all blocks of the database unconditionally:
\* its result is the same for every time range and contains every block of
\* every segment.
C20_SpanReturnsAllBlocks ==
    spanned.status = "done"
    => /\ spanned.one.status = "ok"
       /\ spanned.one = spanned.other
       /\ { spanned.one.result[n] : n \in 1..Len(spanned.one.result) } = AllBlocks

\* what is left of C20: on a database with segments, span returns the blocks
\* of the first segment, the same for every time range
C20_SpanReturnsFirstSegment ==
    (spanned.status = "done" /\ Len(spanned.lst) > 0)
    => /\ spanned.one.status = "ok"
       /\ spanned.one = spanned.other
       /\ spanned.one.result = spanned.lst[1]

(***************************************************************************)
(* Properties of the global route                                          *)
(***************************************************************************)
\* C21: one GLOBAL-rule predicate together with SERIES-LOCAL predicates
\* (Resolve and CreateRef reporting no error) analyzes to a GlobalIndexScan
\* that carries the global rule and its expression only: no local
\* predicate, entity, time range or orderBy is part of the plan, and the
\* orderBy is not analyzed, so an invalid orderBy raises no error.
C21_MixedPlanKeepsOnlyGlobal ==
    (/\ Analyzed
     /\ Cardinality(TargetsAt("LOCATION_GLOBAL")) = 1
     /\ TargetsAt("LOCATION_SERIES") # {}
     /\ UndefinedAt = {}
     /\ AllResolve /\ ProjectionBinds)
    => LET g == CHOOSE i \in TargetsAt("LOCATION_GLOBAL") : TRUE IN
       /\ analyzed.err = NoErr
       /\ DOMAIN analyzed.plan
            = {"type", "projectionFieldRefs", "metadata", "globalIndexRule", "expr"}
       /\ analyzed.plan.type = "GlobalIndexScan"
       /\ analyzed.plan.globalIndexRule = IndexDefined(TheConds[g].tag).rule
       /\ analyzed.plan.expr = TheConds[g]
       /\ analyzed.plan.metadata = uis.u.metadata
       /\ \A n \in 1..Len(calls) : calls[n] # "analyzeOrderBy"

\* C21 witness: a local predicate on tag a, then a global one on tag g, with
\* an orderBy naming a rule that does not exist, gave a GlobalIndexScan
C21_Witness ==
    /\ Analyzed
    /\ Len(TheConds) = 2
    /\ TheConds[1].tag = "a" /\ TheConds[1].kind = "binary" /\ TheConds[1].resolves
    /\ TheConds[2].tag = "g"
    /\ uis.u.unresolvedOrderBy.indexRuleName = "missing"
    /\ analyzed.err = NoErr
    /\ analyzed.plan.type = "GlobalIndexScan"
    /\ analyzed.plan.expr = TheConds[2]

\* C22: List with a path that contains ANY completes without an out-of-range
\* access whatever the series-metadata KV holds: a scanned key whose length
\* differs from the length of the path's mask is simply not admitted.
C22_ListNeverOutOfRange ==
    (Listed /\ ~listed.path.isFull)
    => /\ listed.status = "ok"
       /\ listed.fault = "none"
            => SeriesSet(listed.series) \subseteq
                 { bytesConvSeriesID(kv[k]) :
                     k \in { c \in DOMAIN kv : Len(c) = Len(listed.path.mask) } }

\* what is left of C22: a scanned key shorter than the mask is not admitted,
\* and List completes where no stored key with the prefix is longer
C22_ShorterKeysNotAdmitted ==
    (Listed /\ ~listed.path.isFull
       /\ \A k \in DOMAIN kv : Len(k) <= Len(listed.path.mask))
    => /\ listed.status = "ok"
       /\ listed.fault = "none"
            => SeriesSet(listed.series) \subseteq
                 { bytesConvSeriesID(kv[k]) :
                     k \in { c \in DOMAIN kv : Len(c) = Len(listed.path.mask) } }

(***************************************************************************)
(* Properties of IndexRules                                                *)
(***************************************************************************)
\* the rules named by the matching, currently active bindings, in order
NamedRules == FoundRules(ruled.bindings, ruled.subject, <<>>)

\* C23: IndexRules returns a non-nil error whenever fetching at least one
\* index rule named by a matching, currently active binding fails; the
\* returned list then holds exactly the rules whose fetch succeeded.
C23_FetchFailureIsReported ==
    (ruled.status = "done" /\ ~ruled.listFails
       /\ \E n \in 1..Len(NamedRules) : NamedRules[n] \in ruled.failing)
    => /\ ruled.err # <<>>
       /\ ruled.result = SelectSeq(NamedRules, LAMBDA rule : rule \notin ruled.failing)

\* what is left of C23: the returned list holds exactly the rules whose
\* fetch succeeded, and a failing ListIndexRuleBinding is reported
C23_ResultHoldsFetchedRules ==
    ruled.status = "done"
    => IF ruled.listFails
       THEN ruled.err # <<>> /\ ruled.result = <<>>
       ELSE ruled.result = SelectSeq(NamedRules, LAMBDA rule : rule \notin ruled.failing)

====
